---- MODULE Spec2Model ----
(***************************************************************************)
(* Zone System exposure calculator: zone_system_app.py and                 *)
(* zone_system_exposure.py.                                                *)
(*                                                                         *)
(* Number model.  Python floats are modelled by two integer formats:       *)
(*   - a shutter speed (seconds) is a binary floating-point value          *)
(*     [sgn, m, e] = sgn * m * 2^e / MantOne with MantOne <= m < 2*MantOne *)
(*     (a 25-bit mantissa instead of the double's 53 bits);                *)
(*   - an EV is a fixed-point integer counting 1/EvOne stops.              *)
(* math.log2 and 2 ** x are computed bit by bit on these formats, so they  *)
(* are exact on powers of two and truncated elsewhere, as a libm is exact  *)
(* on powers of two and rounded elsewhere.  Rounding noise finer than      *)
(* 1/EvOne stop is below the model's resolution.                           *)
(***************************************************************************)
EXTENDS Integers, Sequences, FiniteSets, TLC

MantOne == 2^24
EvOne == 2^14
Split == 2^12

Abs(x) == IF x < 0 THEN -x ELSE x

\* floor(x * y / MantOne) for 0 <= x, y < 4 * MantOne, without leaving 31 bits.
MulShift(x, y) ==
    LET xh == x \div Split
        xl == x % Split
        yh == y \div Split
        yl == y % Split
    IN  xh * yh + ((xh * yl + xl * yh + ((xl * yl) \div Split)) \div Split)

\* floor(r * 2^k / d) for 0 <= r < d, by long division.
RECURSIVE DivBits(_, _, _)
DivBits(r, d, k) ==
    IF k = 0 THEN 0
    ELSE LET r2 == 2 * r
             b == IF r2 >= d THEN 1 ELSE 0
         IN  b * 2^(k - 1) + DivBits(r2 - b * d, d, k - 1)

\* Round-half-to-even of num / den (den > 0): Python's round() and "%.Nf".
RoundHalfEven(num, den) ==
    LET q == num \div den
        r == num % den
    IN  IF 2 * r > den THEN q + 1
        ELSE IF 2 * r < den THEN q
        ELSE IF q % 2 = 0 THEN q ELSE q + 1

FZero == [sgn |-> 0, m |-> 0, e |-> 0]

\* <<a, d, e>> with d <= a < 2d and a/d * 2^e the value of the rational given.
RECURSIVE Normalize(_, _, _)
Normalize(a, d, e) ==
    IF a >= 2 * d THEN Normalize(a, 2 * d, e + 1)
    ELSE IF a < d THEN Normalize(2 * a, d, e - 1)
    ELSE <<a, d, e>>

\* The float nearest below the rational n / d (d > 0).
FromRat(n, d) ==
    IF n = 0 THEN FZero
    ELSE LET t == Normalize(Abs(n), d, 0)
         IN  [sgn |-> IF n < 0 THEN -1 ELSE 1,
              m |-> MantOne + DivBits(t[1] - t[2], t[2], 24),
              e |-> t[3]]

\* Float product of two positive floats (x * y, x ** 2).
FMul(x, y) ==
    LET p == MulShift(x.m, y.m)
    IN  IF p >= 2 * MantOne
        THEN [sgn |-> x.sgn * y.sgn, m |-> p \div 2, e |-> x.e + y.e + 1]
        ELSE [sgn |-> x.sgn * y.sgn, m |-> p, e |-> x.e + y.e]

\* 1 / x for a positive float.
FRecip(x) ==
    IF x.m = MantOne THEN [sgn |-> 1, m |-> MantOne, e |-> -x.e]
    ELSE [sgn |-> 1, m |-> DivBits(MantOne, x.m, 25), e |-> -x.e - 1]

FLess(x, y) == x.e < y.e \/ (x.e = y.e /\ x.m < y.m)

\* The fraction bits of log2 of a mantissa in [1, 2), by repeated squaring;
\* w is the weight of the next bit.
RECURSIVE FracLog(_, _)
FracLog(x, w) ==
    IF w = 0 THEN 0
    ELSE LET sq == MulShift(x, x)
         IN  IF sq >= 2 * MantOne
             THEN w + FracLog(sq \div 2, w \div 2)
             ELSE FracLog(sq, w \div 2)

\* math.log2 of a positive float, in 1/EvOne stops.
Log2(x) == x.e * EvOne + FracLog(x.m, EvOne \div 2)

\* floor(2^(2^-i) * MantOne), i = 1 .. 14.
Pow2Root ==
    <<23726566, 19951584, 18295683, 17520006, 17144589, 16959907, 16868314,
      16822703, 16799944, 16788576, 16782895, 16780055, 16778635, 16777925>>

\* The mantissa of 2^(fp / EvOne), 0 <= fp < EvOne: the product of the roots
\* of two whose bit is set in fp, from bit i on.
RECURSIVE FracPow(_, _, _)
FracPow(fp, i, acc) ==
    IF i > Len(Pow2Root) THEN acc
    ELSE IF (fp \div (EvOne \div 2^i)) % 2 = 1
         THEN FracPow(fp, i + 1, MulShift(acc, Pow2Root[i]))
         ELSE FracPow(fp, i + 1, acc)

\* 2 ** ev as a float, ev in 1/EvOne stops.
Pow2(ev) ==
    [sgn |-> 1, m |-> FracPow(ev % EvOne, 1, MantOne), e |-> ev \div EvOne]

\* round(x) for a positive float x < 2^30.
RoundFloat(x) ==
    IF x.e >= 24 THEN x.m * 2^(x.e - 24)
    ELSE IF x.e < -2 THEN 0
    ELSE RoundHalfEven(x.m, 2^(24 - x.e))


(***************************************************************************)
(* Python values.  A reading is None, a number (held as a float) or a      *)
(* string (a sequence of characters).                                      *)
(***************************************************************************)
PyNone == [t |-> "None", f |-> FZero, s |-> <<>>]
PyNum(n, d) == [t |-> "float", f |-> FromRat(n, d), s |-> <<>>]
PyFloat(f) == [t |-> "float", f |-> f, s |-> <<>>]
PyStr(s) == [t |-> "str", f |-> FZero, s |-> s]

\* Python truth value: None, 0, 0.0 and "" are false.
Truthy(v) ==
    CASE v.t = "None" -> FALSE
      [] v.t = "float" -> v.f.sgn # 0
      [] v.t = "str" -> Len(v.s) > 0

DigitVal ==
    [c \in {"0", "1", "2", "3", "4", "5", "6", "7", "8", "9"} |->
        CASE c = "0" -> 0 [] c = "1" -> 1 [] c = "2" -> 2 [] c = "3" -> 3
          [] c = "4" -> 4 [] c = "5" -> 5 [] c = "6" -> 6 [] c = "7" -> 7
          [] c = "8" -> 8 [] c = "9" -> 9]

RECURSIVE ParseDigits(_, _)
ParseDigits(s, acc) ==
    IF s = <<>> THEN acc
    ELSE ParseDigits(Tail(s), 10 * acc + DigitVal[Head(s)])

\* float(v): [ok, f]; ok is FALSE where Python raises (caught by the caller's
\* bare except).  A string converts when it is a run of decimal digits.
float(v) ==
    CASE v.t = "float" -> [ok |-> TRUE, f |-> v.f]
      [] v.t = "str" ->
            IF Len(v.s) > 0 /\ \A i \in 1..Len(v.s) : v.s[i] \in DOMAIN DigitVal
            THEN [ok |-> TRUE, f |-> FromRat(ParseDigits(v.s, 0), 1)]
            ELSE [ok |-> FALSE, f |-> FZero]
      [] OTHER -> [ok |-> FALSE, f |-> FZero]

(***************************************************************************)
(* Core functions (identical in both files).                               *)
(***************************************************************************)
\* shutter_to_ev: [kind, ev]; kind is "None" (returned None), "ev" (returned
\* ev) or "raise" (math.log2 raised ValueError: math domain error).
shutter_to_ev(shutter_speed) ==
    IF ~Truthy(shutter_speed) THEN [kind |-> "None", ev |-> 0]
    ELSE LET c == float(shutter_speed)
         IN  IF ~c.ok THEN [kind |-> "None", ev |-> 0]
             ELSE IF c.f.sgn <= 0 THEN [kind |-> "raise", ev |-> 0]
             ELSE [kind |-> "ev", ev |-> -Log2(c.f)]

\* Mutant of ev_to_shutter: the reciprocal forgotten (2 ** ev).
ev_to_shutter_no_recip(ev) == Pow2(ev)

\* ev_to_shutter: 1 / (2 ** ev).
ev_to_shutter(ev) == FRecip(Pow2(ev))

\* The shutter string: <<"s", n>> is "{n}s", <<"1/s", n>> is "1/{n}s".
shutter_label(shutter_speed) ==
    IF shutter_speed.e >= 0
    THEN <<"s", RoundFloat(shutter_speed)>>
    ELSE <<"1/s", RoundFloat(FRecip(shutter_speed))>>

\* "{v:.2f}" and "{v:.1f}" of an EV: the count of 1/units shown.
Fmt(ev, units) == RoundHalfEven(ev * units, EvOne)

reference_aperture == 16
reference_iso == 100

Keys == <<"brightest", "darkest", "midtone", "subject">>

Line(tag, txt) == [tag |-> tag, txt |-> txt]

NoLocals ==
    [has_range |-> FALSE, scene_range |-> 0, suggested_ev |-> 0,
     has_zone |-> FALSE, zone |-> 0, aperture_adjust |-> 0, iso_adjust |-> 0,
     adjusted_ev |-> 0, shutter_speed |-> FZero]

NotCalled == [kind |-> "none", text |-> "", lines |-> <<>>, loc |-> NoLocals]
Raised(exc) == [kind |-> "raise", text |-> exc, lines |-> <<>>, loc |-> NoLocals]
Sentinel ==
    [kind |-> "return", text |-> "No valid readings provided.", lines |-> <<>>,
     loc |-> NoLocals]

\* Lines 24-30: the readings dictionary.  raises: a conversion raised;
\* keys: the keys in insertion order, None values dropped; ev: their EVs.
ReadingsDict(brightest, darkest, midtone, subject) ==
    LET arg == [k \in {"brightest", "darkest", "midtone", "subject"} |->
                   CASE k = "brightest" -> brightest
                     [] k = "darkest" -> darkest
                     [] k = "midtone" -> midtone
                     [] k = "subject" -> subject]
        conv == [k \in DOMAIN arg |-> shutter_to_ev(arg[k])]
        InDict(k) == Truthy(arg[k]) /\ conv[k].kind = "ev"
    IN  [raises |-> \E k \in DOMAIN arg : Truthy(arg[k]) /\ conv[k].kind = "raise",
         keys |-> SelectSeq(Keys, InDict),
         ev |-> [k \in DOMAIN arg |-> conv[k].ev]]

\* 'k' in readings
Has(readings, k) == \E i \in 1..Len(readings.keys) : readings.keys[i] = k

\* Mutant of SceneRange: the line emitted whenever brightest is present.
SceneRangeBrightestOnly(readings) ==
    IF Has(readings, "brightest")
    THEN [has |-> TRUE,
          scene_range |-> readings.ev["brightest"] - readings.ev["darkest"],
          lines |-> <<Line("Scene brightness range",
                           <<Fmt(readings.ev["brightest"] - readings.ev["darkest"],
                                 100)>>)>>]
    ELSE [has |-> FALSE, scene_range |-> 0, lines |-> <<>>]

\* Lines 36-39: the scene range line.
SceneRange(readings) ==
    IF Has(readings, "brightest") /\ Has(readings, "darkest")
    THEN [has |-> TRUE,
          scene_range |-> readings.ev["brightest"] - readings.ev["darkest"],
          lines |-> <<Line("Scene brightness range",
                           <<Fmt(readings.ev["brightest"] - readings.ev["darkest"],
                                 100)>>)>>]
    ELSE [has |-> FALSE, scene_range |-> 0, lines |-> <<>>]

\* Mutants of PlacementBranch: midtone tested before subject; subject tested
\* before darkest.
PlacementBranchMidtoneFirst(readings) ==
    IF Has(readings, "darkest") THEN "darkest"
    ELSE IF Has(readings, "midtone") THEN "midtone"
    ELSE IF Has(readings, "subject") THEN "subject"
    ELSE "fallback"

PlacementBranchSubjectFirst(readings) ==
    IF Has(readings, "subject") THEN "subject"
    ELSE IF Has(readings, "darkest") THEN "darkest"
    ELSE IF Has(readings, "midtone") THEN "midtone"
    ELSE "fallback"

\* Lines 42, 48, 51, 54: the if / elif chain that picks the placement.
PlacementBranch(readings) ==
    IF Has(readings, "darkest") THEN "darkest"
    ELSE IF Has(readings, "subject") THEN "subject"
    ELSE IF Has(readings, "midtone") THEN "midtone"
    ELSE "fallback"

\* Mutant of HighlightZone: the zone clamped to the scale 0 .. 10.
HighlightZoneClamped(readings, suggested_ev) ==
    LET z == 5 * EvOne + (readings.ev["brightest"] - suggested_ev)
    IN  IF z < 0 THEN 0 ELSE IF z > 10 * EvOne THEN 10 * EvOne ELSE z

\* Lines 46-47: the zone reported for the highlights, 5 + highlight_zone.
HighlightZone(readings, suggested_ev) ==
    5 * EvOne + (readings.ev["brightest"] - suggested_ev)

\* Lines 41-56: the zone placement suggestion.
ZonePlacement(readings) ==
    LET branch == PlacementBranch(readings)
        suggested_ev ==
            CASE branch = "darkest" -> readings.ev["darkest"] + 2 * EvOne
              [] branch = "subject" -> readings.ev["subject"]
              [] branch = "midtone" -> readings.ev["midtone"]
              \* list(readings.values())[0]
              [] OTHER -> readings.ev[readings.keys[1]]
        label ==
            CASE branch = "darkest" -> "Place shadows on Zone III"
              [] branch = "subject" -> "Place subject on Zone V"
              [] branch = "midtone" -> "Use midtone reading (Zone V)"
              [] OTHER -> "Fallback: using first reading"
        has_zone == branch = "darkest" /\ Has(readings, "brightest")
    IN  [suggested_ev |-> suggested_ev,
         has_zone |-> has_zone,
         zone |-> IF has_zone THEN HighlightZone(readings, suggested_ev) ELSE 0,
         lines |-> <<Line(label, <<Fmt(suggested_ev, 100)>>)>>
                   \o (IF has_zone
                       THEN <<Line("Highlights would fall at Zone",
                                   <<Fmt(HighlightZone(readings, suggested_ev),
                                         10)>>)>>
                       ELSE <<>>)]

\* Mutant of ApertureAdjust: the square forgotten.
ApertureAdjustNoSquare(aperture) ==
    Log2(FromRat(aperture, 10 * reference_aperture))

\* Line 61: math.log2((aperture / reference_aperture) ** 2), aperture in
\* tenths of an f-stop (160 is f/16.0).
ApertureAdjust(aperture) ==
    LET ratio == FromRat(aperture, 10 * reference_aperture)
    IN  Log2(FMul(ratio, ratio))

\* Mutant of IsoAdjust: the reference taken one stop too high.
IsoAdjustWrongRef(iso) == Log2(FromRat(iso, 2 * reference_iso))

\* Line 62: math.log2(iso / reference_iso).
IsoAdjust(iso) == Log2(FromRat(iso, reference_iso))

\* Line 63.
AdjustedEv(suggested_ev, aperture_adjust, iso_adjust) ==
    suggested_ev - aperture_adjust - iso_adjust

\* Lines 67-70: the shutter string, as shutter_label builds it.
ShutterStr(shutter_speed) ==
    IF shutter_speed.e >= 0
    THEN <<"s", RoundFloat(shutter_speed)>>
    ELSE <<"1/s", RoundFloat(FRecip(shutter_speed))>>

recommend_exposure(aperture, iso, brightest, darkest, midtone, subject) ==
    LET readings == ReadingsDict(brightest, darkest, midtone, subject)
        range == SceneRange(readings)
        place == ZonePlacement(readings)
        aperture_adjust == ApertureAdjust(aperture)
        iso_adjust == IsoAdjust(iso)
        adjusted_ev == AdjustedEv(place.suggested_ev, aperture_adjust, iso_adjust)
        shutter_speed == ev_to_shutter(adjusted_ev)
        final == Line("Suggested exposure",
                      <<ShutterStr(shutter_speed), aperture, iso>>)
    IN  IF readings.raises THEN Raised("ValueError")
        ELSE IF readings.keys = <<>> THEN Sentinel
        ELSE [kind |-> "return", text |-> "",
              lines |-> range.lines \o place.lines \o <<final>>,
              loc |-> [has_range |-> range.has,
                       scene_range |-> range.scene_range,
                       suggested_ev |-> place.suggested_ev,
                       has_zone |-> place.has_zone,
                       zone |-> place.zone,
                       aperture_adjust |-> aperture_adjust,
                       iso_adjust |-> iso_adjust,
                       adjusted_ev |-> adjusted_ev,
                       shutter_speed |-> shutter_speed]]

(***************************************************************************)
(* State.                                                                  *)
(*   mode      which program runs: "call" (recommend_exposure called       *)
(*             directly), "app" (zone_system_app.py), "exposure"           *)
(*             (zone_system_exposure.py), "conv" (the two conversions)     *)
(*   sliders   the four slider widgets: an index into shutter_speeds       *)
(*             ("app") or an EV in tenths ("exposure")                     *)
(*   args      brightest, darkest, midtone, subject as passed              *)
(*   aperture  in tenths of an f-stop;  iso  an integer                    *)
(*   result    what the last call returned or raised (NotCalled: nothing   *)
(*             called, or nothing displayed on this rerun)                 *)
(*   conv      the value being converted back and forth                    *)
(***************************************************************************)
VARIABLES mode, sliders, args, aperture, iso, result, conv

vars == <<mode, sliders, args, aperture, iso, result, conv>>

KeySet == {"brightest", "darkest", "midtone", "subject"}

\* zone_system_app.py: the select_slider options, as <<numerator, denominator>>.
shutter_speeds ==
    <<<<30, 1>>, <<15, 1>>, <<8, 1>>, <<4, 1>>, <<2, 1>>, <<1, 1>>,
      <<1, 2>>, <<1, 4>>, <<1, 8>>, <<1, 15>>, <<1, 30>>, <<1, 60>>, <<1, 125>>,
      <<1, 250>>, <<1, 500>>, <<1, 1000>>, <<1, 2000>>, <<1, 4000>>>>

Speed(i) == PyNum(shutter_speeds[i][1], shutter_speeds[i][2])

IndexOf(n, d) == CHOOSE i \in 1..Len(shutter_speeds) : shutter_speeds[i] = <<n, d>>

\* Bounds of the model.
NumMid == 2
EdgeOptions == 1

\* Readings tried in direct calls: the kinds that are not a positive number,
\* the two ends of shutter_speeds and NumMid of its middle options from 1/15 s.
BadReadings ==
    {PyNone, PyNum(0, 1), PyNum(-1, 15), PyStr(<<"a", "b", "c">>), PyStr(<<"0">>)}
GoodReadings ==
    {Speed(i) : i \in {1, Len(shutter_speeds)}
                      \cup (IndexOf(1, 15)..(IndexOf(1, 15) + NumMid - 1))}
ReadingValues == BadReadings \cup GoodReadings
Apertures == {110, 160}
Isos == {100, 200}

NoSliders == [k \in KeySet |-> 0]
NoArgs == [k \in KeySet |-> PyNone]
NoConv == [unit |-> "none", f |-> FZero, ev |-> 0, of |-> FZero, oev |-> 0, steps |-> 0]

Recommend(ap, i, a) ==
    recommend_exposure(ap, i, a["brightest"], a["darkest"], a["midtone"], a["subject"])

(***************************************************************************)
(* recommend_exposure called directly on any arguments.                    *)
(***************************************************************************)
Init ==
    /\ mode = "call"
    /\ sliders = NoSliders
    /\ args \in [KeySet -> ReadingValues]
    /\ aperture \in Apertures
    /\ iso \in Isos
    /\ result = NotCalled
    /\ conv = NoConv

Call ==
    /\ mode = "call"
    /\ result.kind = "none"
    /\ result' = Recommend(aperture, iso, args)
    /\ UNCHANGED <<mode, sliders, args, aperture, iso, conv>>

Next == Call

Spec == Init /\ [][Next]_vars

(***************************************************************************)
(* The two Streamlit scripts.  Every widget change reruns the script: the  *)
(* reading variables are recomputed and, the button not being the widget   *)
(* that changed, no result is rendered.                                    *)
(***************************************************************************)
\* st.slider(min_value=-5.0, max_value=15.0, step=0.1), in tenths.
ev_min == -50
ev_max == 150

AppDefaults ==
    [k \in KeySet |->
        CASE k = "brightest" -> IndexOf(1, 125)
          [] k = "midtone" -> IndexOf(1, 60)
          [] k = "darkest" -> IndexOf(1, 15)
          [] k = "subject" -> IndexOf(1, 30)]

ExposureDefaults ==
    [k \in KeySet |->
        CASE k = "brightest" -> 100
          [] k = "midtone" -> 80
          [] k = "darkest" -> 50
          [] k = "subject" -> 70]

\* Slider positions tried: the defaults, the last position and the first
\* EdgeOptions positions.
AppOptions ==
    {AppDefaults[k] : k \in KeySet}
        \cup (1..EdgeOptions) \cup {Len(shutter_speeds)}
ExposureOptions ==
    {ExposureDefaults[k] : k \in KeySet}
        \cup (ev_min..(ev_min + EdgeOptions - 1)) \cup {ev_max}

\* st.number_input values tried: aperture (min, default, max) in tenths,
\* ISO (default, max).
UIApertures == {10, 160, 640}
UIIsos == {100, 12800}

\* The float EV of a slider position in tenths.
SliderEv(tenths) == RoundHalfEven(tenths * EvOne, 10)

\* The value a slider position hands to the script: the option itself
\* (select_slider), or ev_to_shutter of the slider's EV (lines 124-127).
AppReading == [i \in 1..Len(shutter_speeds) |-> Speed(i)]
ExposureReading ==
    [t \in ExposureOptions |-> PyFloat(ev_to_shutter(SliderEv(t)))]

\* The reading variables the script computes from the widgets.
AppArgs(s) == [k \in KeySet |-> AppReading[s[k]]]
ExposureArgs(s) == [k \in KeySet |-> ExposureReading[s[k]]]

InitUI ==
    /\ mode \in {"app", "exposure"}
    /\ sliders = IF mode = "app" THEN AppDefaults ELSE ExposureDefaults
    /\ args = IF mode = "app" THEN AppArgs(sliders) ELSE ExposureArgs(sliders)
    /\ aperture = 160
    /\ iso = 100
    /\ result = NotCalled
    /\ conv = NoConv

SelectSlider ==
    /\ mode = "app"
    /\ \E k \in KeySet, v \in AppOptions :
          /\ v # sliders[k]
          /\ sliders' = [sliders EXCEPT ![k] = v]
    /\ args' = AppArgs(sliders')
    /\ result' = NotCalled
    /\ UNCHANGED <<mode, aperture, iso, conv>>

EvSlider ==
    /\ mode = "exposure"
    /\ \E k \in KeySet, v \in ExposureOptions :
          /\ v # sliders[k]
          /\ sliders' = [sliders EXCEPT ![k] = v]
    /\ args' = ExposureArgs(sliders')
    /\ result' = NotCalled
    /\ UNCHANGED <<mode, aperture, iso, conv>>

SetAperture ==
    /\ mode \in {"app", "exposure"}
    /\ \E a \in UIApertures : a # aperture /\ aperture' = a
    /\ result' = NotCalled
    /\ UNCHANGED <<mode, sliders, args, iso, conv>>

SetIso ==
    /\ mode \in {"app", "exposure"}
    /\ \E i \in UIIsos : i # iso /\ iso' = i
    /\ result' = NotCalled
    /\ UNCHANGED <<mode, sliders, args, aperture, conv>>

\* The button runs recommend_exposure on every press (lines 124-126 and
\* 129-131): pressing it again renders the same text.
Calculate ==
    /\ mode \in {"app", "exposure"}
    /\ result' = Recommend(aperture, iso, args)
    /\ UNCHANGED <<mode, sliders, args, aperture, iso, conv>>

NextUI == SelectSlider \/ EvSlider \/ SetAperture \/ SetIso \/ Calculate

SpecUI == InitUI /\ [][NextUI]_vars

(***************************************************************************)
(* The two conversions applied in turn to a shutter speed or to an EV.     *)
(***************************************************************************)
ConvSpeeds == {FromRat(shutter_speeds[i][1], shutter_speeds[i][2]) :
                  i \in 1..Len(shutter_speeds)}
\* EVs tried: the slider's tenths within two stops of zero, where a double is
\* spaced finest and the conversions' rounding shows.
ConvEvs == {SliderEv(t) : t \in -20..20}

InitConv ==
    /\ mode = "conv"
    /\ sliders = NoSliders
    /\ args = NoArgs
    /\ aperture = 160
    /\ iso = 100
    /\ result = NotCalled
    /\ \/ \E s \in ConvSpeeds :
             conv = [unit |-> "s", f |-> s, ev |-> 0, of |-> s, oev |-> 0, steps |-> 0]
       \/ \E e \in ConvEvs :
             conv = [unit |-> "ev", f |-> FZero, ev |-> e, of |-> FZero, oev |-> e,
                     steps |-> 0]

ToEv ==
    /\ mode = "conv"
    /\ conv.unit = "s"
    /\ conv.steps < 2
    /\ conv' = [conv EXCEPT !.unit = "ev", !.f = FZero,
                            !.ev = shutter_to_ev(PyFloat(conv.f)).ev,
                            !.steps = @ + 1]
    /\ UNCHANGED <<mode, sliders, args, aperture, iso, result>>

ToShutter ==
    /\ mode = "conv"
    /\ conv.unit = "ev"
    /\ conv.steps < 2
    /\ conv' = [conv EXCEPT !.unit = "s", !.ev = 0,
                            !.f = ev_to_shutter(conv.ev),
                            !.steps = @ + 1]
    /\ UNCHANGED <<mode, sliders, args, aperture, iso, result>>

NextConv == ToEv \/ ToShutter

SpecConv == InitConv /\ [][NextConv]_vars

(***************************************************************************)
(* Properties.                                                             *)
(***************************************************************************)
Called == result.kind # "none"
\* The call returned a recommendation (not the sentinel, not an exception).
Returned == result.kind = "return" /\ result.text = ""
IsSentinel == result.kind = "return" /\ result.text = "No valid readings provided."

\* A valid reading: a positive shutter speed.
Positive(v) == v.t = "float" /\ v.f.sgn = 1
\* A reading the code skips without converting it or failing on it.
Skipped(v) == v \in {PyNone, PyNum(0, 1), PyStr(<<"a", "b", "c">>)}
EvOf(v) == -Log2(v.f)

PlacementTags ==
    {"Place shadows on Zone III", "Place subject on Zone V",
     "Use midtone reading (Zone V)", "Fallback: using first reading"}
LinesTagged(r, tags) == {i \in 1..Len(r.lines) : r.lines[i].tag \in tags}
HasLine(r, tag, txt) ==
    \E i \in 1..Len(r.lines) : r.lines[i] = Line(tag, txt)

\* C1: with every reading absent or valid and at least one valid, exactly one
\* placement line is emitted and suggested_ev follows the priority darkest
\* (+2), subject, midtone, fallback; the fallback is taken exactly when
\* brightest is the only valid reading and then uses EV(brightest).
C1_PlacementPriority ==
    (/\ Called
     /\ \A k \in KeySet : Positive(args[k]) \/ Skipped(args[k])
     /\ \E k \in KeySet : Positive(args[k]))
    => /\ Returned
       /\ Cardinality(LinesTagged(result, PlacementTags)) = 1
       /\ IF Positive(args["darkest"]) THEN
              /\ result.loc.suggested_ev = EvOf(args["darkest"]) + 2 * EvOne
              /\ HasLine(result, "Place shadows on Zone III",
                         <<Fmt(EvOf(args["darkest"]) + 2 * EvOne, 100)>>)
          ELSE IF Positive(args["subject"]) THEN
              /\ result.loc.suggested_ev = EvOf(args["subject"])
              /\ HasLine(result, "Place subject on Zone V",
                         <<Fmt(EvOf(args["subject"]), 100)>>)
          ELSE IF Positive(args["midtone"]) THEN
              /\ result.loc.suggested_ev = EvOf(args["midtone"])
              /\ HasLine(result, "Use midtone reading (Zone V)",
                         <<Fmt(EvOf(args["midtone"]), 100)>>)
          ELSE
              /\ result.loc.suggested_ev = EvOf(args["brightest"])
              /\ HasLine(result, "Fallback: using first reading",
                         <<Fmt(EvOf(args["brightest"]), 100)>>)
       /\ (LinesTagged(result, {"Fallback: using first reading"}) # {}
           <=> /\ Positive(args["brightest"])
               /\ \A k \in KeySet \ {"brightest"} : ~Positive(args[k]))

\* C1 witness: a call with a valid subject and a valid midtone and no darkest
\* reading took the subject branch.
C1_Witness ==
    /\ Returned
    /\ Positive(args["subject"]) /\ Positive(args["midtone"])
    /\ Skipped(args["darkest"])
    /\ LinesTagged(result, {"Place subject on Zone V"}) # {}

Half(f) == [f EXCEPT !.e = @ - 1]

\* C2: with readings and aperture fixed, doubling ISO raises adjusted_ev by
\* exactly one stop and halves the recommended shutter time.
C2_IsoDoubling ==
    Returned =>
        LET r2 == Recommend(aperture, 2 * iso, args)
        IN  /\ r2.loc.adjusted_ev = result.loc.adjusted_ev + EvOne
            /\ r2.loc.shutter_speed = Half(result.loc.shutter_speed)

TryApertures == {10, 110, 160, 640}

\* Recommendation r asks for a higher adjusted EV and a shorter time than s.
Faster(r, s) ==
    /\ r.loc.adjusted_ev > s.loc.adjusted_ev
    /\ FLess(r.loc.shutter_speed, s.loc.shutter_speed)

\* C3: with readings and ISO fixed, adjusted_ev is strictly decreasing in the
\* f-number and the shutter time strictly increasing; halving the f-number
\* raises adjusted_ev by exactly 2; f/16 to f/11 raises it by 2*log2(16/11),
\* which is within a tenth of a stop of 1.
C3_ApertureDirection ==
    Returned =>
        /\ \A a \in TryApertures :
              /\ a < aperture => Faster(Recommend(a, iso, args), result)
              /\ a > aperture => Faster(result, Recommend(a, iso, args))
        /\ aperture % 2 = 0 =>
              Recommend(aperture \div 2, iso, args).loc.adjusted_ev
                  = result.loc.adjusted_ev + 2 * EvOne
        /\ aperture = 160 =>
              LET d == Recommend(110, iso, args).loc.adjusted_ev
                           - result.loc.adjusted_ev
              IN  /\ Abs(d - 2 * Log2(FromRat(16, 11))) <= 4
                  /\ 10 * Abs(d - EvOne) <= EvOne

\* C3 witness: a recommendation at f/16 whose f/11 counterpart is faster.
C3_Witness ==
    /\ Returned
    /\ aperture = 160
    /\ Recommend(110, iso, args).loc.adjusted_ev > result.loc.adjusted_ev

\* C4: the call never raises; a reading that is not a positive number is
\* treated as absent.
C4_NeverRaises ==
    Called =>
        /\ result.kind = "return"
        /\ result = Recommend(aperture, iso,
                              [k \in KeySet |->
                                  IF Positive(args[k]) THEN args[k] ELSE PyNone])

\* C5: the sentinel is returned if and only if no reading converts to an EV,
\* whatever aperture and ISO are; with a reading that converts, the result is
\* a recommendation.
C5_SentinelIff ==
    Called =>
        /\ (\A k \in KeySet : ~Positive(args[k])) <=> result = Sentinel
        /\ (\E k \in KeySet : Positive(args[k])) <=> Returned

\* C6: a recommendation is [range] placement [highlights] exposure, the range
\* and the highlights lines present exactly when brightest and darkest are both
\* valid, the exposure line once and last: 2 or 4 lines.
C6_LineOrder ==
    Returned =>
        LET n == Len(result.lines)
            both == Positive(args["brightest"]) /\ Positive(args["darkest"])
        IN  /\ n \in {2, 4}
            /\ both <=> n = 4
            /\ both <=> LinesTagged(result, {"Scene brightness range"}) # {}
            /\ both <=> LinesTagged(result, {"Highlights would fall at Zone"}) # {}
            /\ LinesTagged(result, {"Suggested exposure"}) = {n}
            /\ result.lines[n - 1].tag
                   = IF both THEN "Highlights would fall at Zone"
                     ELSE result.lines[1].tag
            /\ result.lines[IF both THEN 2 ELSE 1].tag \in PlacementTags
            /\ both =>
                  /\ result.lines[1]
                         = Line("Scene brightness range",
                                <<Fmt(EvOf(args["brightest"])
                                          - EvOf(args["darkest"]), 100)>>)
                  /\ result.lines[2].tag = "Place shadows on Zone III"

\* C6 witness: a four-line recommendation.
C6_Witness ==
    /\ Returned
    /\ Len(result.lines) = 4
    /\ Positive(args["midtone"])

\* C7: at f/16 and ISO 100 no adjustment is applied, and a single subject,
\* midtone or brightest reading s comes back as the recommended shutter speed.
C7_ReferenceSettings ==
    (Returned /\ aperture = 160 /\ iso = 100) =>
        /\ result.loc.aperture_adjust = 0
        /\ result.loc.iso_adjust = 0
        /\ result.loc.adjusted_ev = result.loc.suggested_ev
        /\ \A k \in {"subject", "midtone", "brightest"} :
              (Positive(args[k]) /\ \A j \in KeySet \ {k} : ~Positive(args[j]))
              => result.lines[Len(result.lines)]
                     = Line("Suggested exposure",
                            <<shutter_label(args[k].f), 160, 100>>)

\* C7 witness: subject = 1/30 s alone at f/16, ISO 100 gives "1/30s".
C7_Witness ==
    /\ Returned
    /\ aperture = 160 /\ iso = 100
    /\ args["subject"] = PyNum(1, 30)
    /\ \A j \in KeySet \ {"subject"} : args[j] = PyNone
    /\ result.lines[2] = Line("Suggested exposure", <<<<"1/s", 30>>, 160, 100>>)

\* Two floats agree to the resolution of an EV.
Close(f, g) == f.e = g.e /\ Abs(f.m - g.m) <= MantOne \div 2^12

C9_HighlightZone ==
    (Returned /\ result.loc.has_range /\ result.loc.has_zone) =>
        LET range == EvOf(args["brightest"]) - EvOf(args["darkest"])
        IN  /\ result.loc.scene_range = range
            /\ result.loc.zone = result.loc.scene_range + 3 * EvOne
            /\ result.lines[1] = Line("Scene brightness range", <<Fmt(range, 100)>>)
            /\ result.lines[3]
                   = Line("Highlights would fall at Zone",
                          <<Fmt(range + 3 * EvOne, 10)>>)
            /\ result.lines[3]
                   = recommend_exposure(640, 25, args["brightest"], args["darkest"],
                                        PyNone, PyNone).lines[3]
            /\ EvOf(args["brightest"]) < EvOf(args["darkest"])
                   => result.loc.zone < 3 * EvOne

\* C9 witness: brightest metered darker than darkest, the zone reported below
\* Zone 0.
C9_Witness ==
    /\ Returned
    /\ result.loc.has_zone
    /\ result.loc.zone < 0
    /\ result.lines[3].txt[1] < 0

\* C10: in both apps every reading handed to recommend_exposure is a positive
\* number, so a calculated result is always the four-line Zone III
\* recommendation and is the one computed without midtone and subject.
C10_SlidersAlwaysValid ==
    /\ \A k \in KeySet : Positive(args[k])
    /\ Called =>
          /\ Returned
          /\ Len(result.lines) = 4
          /\ result.lines[1].tag = "Scene brightness range"
          /\ result.lines[2].tag = "Place shadows on Zone III"
          /\ result.lines[3].tag = "Highlights would fall at Zone"
          /\ result.lines[4].tag = "Suggested exposure"
          /\ result = Recommend(aperture, iso,
                                [args EXCEPT !["midtone"] = PyNone,
                                             !["subject"] = PyNone])

\* C10 witness: a result calculated in zone_system_exposure.py after the
\* subject and midtone sliders were moved off their defaults.
C10_Witness ==
    /\ mode = "exposure"
    /\ Called
    /\ sliders["subject"] = ev_min
    /\ sliders["midtone"] = ev_max
    /\ aperture # 160
====
